---- MODULE Spec2Model ----
(***************************************************************************)
(* Checkout-session creation and webhook reconciliation of the storefront  *)
(* backend (src/unnamed/part_000, the latest variant of the API; the       *)
(* handlers of src/index.js are earlier revisions of the same code).       *)
(*                                                                         *)
(* The server keeps no state of its own.  The state of the model is the    *)
(* state of its two collaborators (the sessions held by the payment        *)
(* gateway, the orders and coupon usages held by the database), the        *)
(* webhook handlers that are suspended at an await, and the response, if   *)
(* any, that the last step sent.                                           *)
(***************************************************************************)
EXTENDS Integers, Sequences, FiniteSets, Bags, TLC

VARIABLES
    sessions,     \* gateway: the checkout sessions created so far, by session id
    uuidsDrawn,   \* number of randomUUID() calls made so far
    orders,       \* database: arguments of the process_stripe_webhook calls that persisted
    couponUses,   \* database: the update_coupon_usage calls that were applied
    inflight,     \* bag of webhook handlers suspended at an await
    response      \* the response sent by the last step, with its request and the calls made for it

vars == <<sessions, uuidsDrawn, orders, couponUses, inflight, response>>

(***************************************************************************)
(* Bounds of the model.                                                    *)
(***************************************************************************)
MaxItems == 2        \* longest cart
MaxCheckouts == 2    \* checkout requests that reach randomUUID()
MaxInFlight == 2     \* webhook deliveries being handled at the same time

(***************************************************************************)
(* JavaScript values.  A number is a record so that NaN and undefined can  *)
(* flow through the arithmetic the way they do in the handler.             *)
(***************************************************************************)
Num(v) == [t |-> "num", v |-> v]
NaN == [t |-> "nan", v |-> 0]
Undefined == [t |-> "undef", v |-> 0]

IsNum(x) == x.t = "num"

\* a * b
JsMul(a, b) == IF IsNum(a) /\ IsNum(b) THEN Num(a.v * b.v) ELSE NaN

\* a + b (numbers only: the reduce starts from the number 0)
JsAdd(a, b) == IF IsNum(a) /\ IsNum(b) THEN Num(a.v + b.v) ELSE NaN

\* -a
JsNeg(a) == IF IsNum(a) THEN Num(0 - a.v) ELSE NaN

\* a > 0: false for NaN
JsPositive(a) == IsNum(a) /\ a.v > 0

\* Math.min(a, b): NaN when either argument is not a number
MathMin(a, b) == IF IsNum(a) /\ IsNum(b) THEN Num(IF a.v <= b.v THEN a.v ELSE b.v) ELSE NaN

(***************************************************************************)
(* IEEE-754 double arithmetic of Math.round(fl(num/den) * s) for integers  *)
(* num >= 0, den > 0, s >= 0, computed on small integers.                  *)
(*                                                                         *)
(* fl(num/den) = M / 2^p with 2^52 <= M < 2^53.  With                      *)
(* err = den*M - num*2^p (|err| <= den/2) the exact product is             *)
(*     s*num/den + s*err/(den*2^p),                                        *)
(* which the multiplication rounds to the nearest double.  s*num/den is a  *)
(* multiple of 1/den, so the double lies on the same side of q + 1/2 as    *)
(* s*num/den unless s*num/den is exactly q + 1/2; then it is below q + 1/2 *)
(* iff err < 0 and the product is more than half an ulp below q + 1/2.     *)
(***************************************************************************)
RECURSIVE Pow2(_)
Pow2(n) == IF n <= 0 THEN 1 ELSE 2 * Pow2(n - 1)

\* floor(log2(n)) for n >= 1
RECURSIVE Log2Floor(_)
Log2Floor(n) == IF n <= 1 THEN 0 ELSE 1 + Log2Floor(n \div 2)

\* the j with 2^-j <= num/den < 2^(1-j), for num > 0
RECURSIVE BinaryExponentDown(_, _, _)
BinaryExponentDown(num, den, j) ==
    IF num * Pow2(j) >= den THEN j ELSE BinaryExponentDown(num, den, j + 1)

BinaryExponent(num, den) ==
    IF num >= den THEN 0 - Log2Floor(num \div den) ELSE BinaryExponentDown(num, den, 1)

\* (num * 2^p) mod den
RECURSIVE ShiftedRemainder(_, _, _)
ShiftedRemainder(num, den, p) ==
    IF p <= 0 THEN num % den ELSE (2 * ShiftedRemainder(num, den, p - 1)) % den

\* number of fraction bits p of fl(num/den) = M / 2^p
MantissaShift(num, den) == 52 + BinaryExponent(num, den)

\* err = den*M - num*2^p: round to nearest of the quotient
QuotientError(num, den) ==
    LET r == ShiftedRemainder(num, den, MantissaShift(num, den))
    IN  IF 2 * r < den THEN 0 - r ELSE den - r

\* whether fl(fl(num/den) * s) >= q + 1/2 when s*num/den = q + 1/2 exactly
HalfwayStaysUp(num, den, s, q) ==
    LET err == QuotientError(num, den)
        E == IF q = 0 THEN 0 - 1 ELSE Log2Floor(q)
        \* half the distance from q + 1/2 to the double below it is 2^g
        g == IF q = 0 THEN E - 54 ELSE E - 53
        sh == MantissaShift(num, den) + g
    IN  \/ err >= 0
        \/ IF sh >= 0 THEN s * (0 - err) <= den * Pow2(sh)
                      ELSE s * (0 - err) * Pow2(0 - sh) <= den

MathRoundTruncates(num, den, s) == (s * num) \div den

\* Math.round(fl(num/den) * s): the nearest integer, halves towards +infinity
MathRoundOfProduct(num, den, s) ==
    LET q == (s * num) \div den
        rem == (s * num) % den
    IN  IF 2 * rem > den THEN q + 1
        ELSE IF 2 * rem < den THEN q
        ELSE IF HalfwayStaysUp(num, den, s, q) THEN q + 1 ELSE q

(***************************************************************************)
(* Strings of digits.  Gateway metadata is string-valued: a number put in  *)
(* metadata comes back as its decimal text, which the webhook parses.  A   *)
(* text is a tuple of one-character strings.                               *)
(***************************************************************************)
DigitChars == <<"0", "1", "2", "3", "4", "5", "6", "7", "8", "9">>

RECURSIVE NatToString(_)
NatToString(n) ==
    IF n < 10 THEN <<DigitChars[n + 1]>>
    ELSE Append(NatToString(n \div 10), DigitChars[(n % 10) + 1])

\* Number.prototype.toString() / String(x) of an integer-valued number
NumberToString(x) ==
    IF ~IsNum(x) THEN <<"N", "a", "N">>
    ELSE IF x.v < 0 THEN <<"-">> \o NatToString(0 - x.v)
    ELSE NatToString(x.v)

DigitValue(c) == CHOOSE d \in 0..9 : DigitChars[d + 1] = c

IsDigit(c) == \E d \in 0..9 : DigitChars[d + 1] = c

\* value of the longest prefix of digits of str, continuing from acc
RECURSIVE ParseDigits(_, _)
ParseDigits(str, acc) ==
    IF str = <<>> \/ ~IsDigit(Head(str)) THEN acc
    ELSE ParseDigits(Tail(str), 10 * acc + DigitValue(Head(str)))

\* parseInt(str): optional sign, then digits up to the first non-digit; NaN without a digit
ParseInt(str) ==
    LET neg == str # <<>> /\ Head(str) = "-"
        rest == IF str # <<>> /\ Head(str) \in {"-", "+"} THEN Tail(str) ELSE str
    IN  IF rest = <<>> \/ ~IsDigit(Head(rest)) THEN NaN
        ELSE Num(IF neg THEN 0 - ParseDigits(rest, 0) ELSE ParseDigits(rest, 0))

\* x || 0 for a number x: NaN and 0 are falsy
OrZero(x) == IF IsNum(x) /\ x.v # 0 THEN x ELSE Num(0)

\* s || null, s || '' for a string s: the empty string is falsy
Truthy(s) == s # ""

(***************************************************************************)
(* POST /create-checkout-session: the request body.                        *)
(*   items  : [kind, list]  kind "missing" (undefined or null), "notArray" *)
(*            (a truthy value that is no array) or "array"                 *)
(*   coupon : [present, id, code, discount_type, discount_value]           *)
(***************************************************************************)
TaxRateNum == 8875       \* taxRate = 0.08875 = 8875 / 100000
TaxRateDen == 100000
PercentDen == 100        \* coupon.discount_value / 100

InvalidItemsNoLength(items) == items.kind = "missing" \/ items.kind # "array"

\* !items || !Array.isArray(items) || items.length === 0
InvalidItems(items) ==
    \/ items.kind = "missing"                 \* !items
    \/ items.kind # "array"                   \* !Array.isArray(items)
    \/ Len(items.list) = 0                    \* items.length === 0

\* metadata of the product of a cart line: image_url only when the item has one
ProductMetadata(item) ==
    IF item.image_url # ""
    THEN [productId |-> item.id, image_url |-> item.image_url]
    ELSE [productId |-> item.id]

\* items.map(item => ({price_data: ..., quantity: item.quantity}))
LineItems(list) ==
    [i \in 1..Len(list) |->
        [price_data |-> [product_data |-> [name |-> list[i].name,
                                           metadata |-> ProductMetadata(list[i])],
                         unit_amount |-> list[i].price],
         quantity |-> list[i].quantity]]

\* items.reduce((sum, item) => sum + (item.price * item.quantity), 0)
RECURSIVE Reduce(_, _)
Reduce(list, sum) ==
    IF list = <<>> THEN sum
    ELSE Reduce(Tail(list), JsAdd(sum, JsMul(Head(list).price, Head(list).quantity)))

Subtotal(list) == Reduce(list, Num(0))

\* Math.round((coupon.discount_value / 100) * subtotal)
PercentageDiscount(value, subtotal) ==
    IF IsNum(value) /\ IsNum(subtotal)
    THEN Num(MathRoundOfProduct(value.v, PercentDen, subtotal.v))
    ELSE NaN

DiscountAmount(coupon, subtotal) ==
    IF ~coupon.present THEN Num(0)
    ELSE IF coupon.discount_type = "fixed_amount" THEN MathMin(coupon.discount_value, subtotal)
    ELSE IF coupon.discount_type = "percentage" THEN PercentageDiscount(coupon.discount_value, subtotal)
    ELSE Num(0)

SkipShipping(coupon) ==
    coupon.present /\ coupon.discount_type \in {"free_shipping", "full_discount"}

SkipTaxOnlyFull(coupon) == coupon.present /\ coupon.discount_type = "full_discount"

SkipTax(coupon) ==
    coupon.present /\ coupon.discount_type \in {"no_tax", "full_discount"}

\* taxAmount = Math.round(subtotal * taxRate) unless the coupon skips tax
TaxAmount(coupon, subtotal) ==
    IF SkipTax(coupon) THEN Num(0)
    ELSE IF IsNum(subtotal) THEN Num(MathRoundOfProduct(TaxRateNum, TaxRateDen, subtotal.v))
    ELSE NaN

TaxLineItemWithProductId(taxAmount) ==
    [price_data |-> [product_data |-> [name |-> "Sales Tax (8.875%)",
                                       metadata |-> [productId |-> "tax"]],
                     unit_amount |-> taxAmount],
     quantity |-> Num(1)]

TaxLineItem(taxAmount) ==
    [price_data |-> [product_data |-> [name |-> "Sales Tax (8.875%)"],
                     unit_amount |-> taxAmount],
     quantity |-> Num(1)]

DiscountLineItem(couponCode, discountAmount) ==
    [price_data |-> [product_data |-> [name |-> "Discount: " \o couponCode],
                     unit_amount |-> JsNeg(discountAmount)],
     quantity |-> Num(1)]

\* the tax line is added when shipping is not skipped and the tax is positive
EmitsTaxLine(coupon, taxAmount) == ~SkipShipping(coupon) /\ JsPositive(taxAmount)

AllLineItems(list, coupon) ==
    LET subtotal == Subtotal(list)
        taxAmount == TaxAmount(coupon, subtotal)
        discountAmount == DiscountAmount(coupon, subtotal)
    IN  LineItems(list)
        \o (IF EmitsTaxLine(coupon, taxAmount) THEN <<TaxLineItem(taxAmount)>> ELSE <<>>)
        \o (IF JsPositive(discountAmount)
            THEN <<DiscountLineItem(coupon.code, discountAmount)>> ELSE <<>>)

\* the two fixed shipping tiers, by amount
ShippingOptions == <<[display_name |-> "Standard Shipping", amount |-> 499],
                     [display_name |-> "Express Shipping", amount |-> 999]>>

SessionMetadata(body, orderId) ==
    LET subtotal == Subtotal(body.items.list)
    IN  [userId |-> body.userId,
         orderId |-> orderId,
         taxAmount |-> TaxAmount(body.coupon, subtotal),
         couponId |-> IF body.coupon.present /\ Truthy(body.coupon.id) THEN body.coupon.id ELSE "",
         couponCode |-> IF body.coupon.present /\ Truthy(body.coupon.code) THEN body.coupon.code ELSE "",
         discountAmount |-> NumberToString(DiscountAmount(body.coupon, subtotal))]

\* shipping options and address collection are attached unless shipping is skipped
SessionParams(body, orderId) ==
    LET base == [line_items |-> AllLineItems(body.items.list, body.coupon),
                 metadata |-> SessionMetadata(body, orderId)]
    IN  IF SkipShipping(body.coupon) THEN base
        ELSE base @@ [shipping_options |-> ShippingOptions,
                      shipping_address_collection |-> [allowed_countries |-> <<"US">>]]

\* randomUUID(): the n-th identifier drawn
RandomUUID(n) == <<"uuid", n>>

(***************************************************************************)
(* The payment gateway.  It keeps what it was sent: every line becomes a   *)
(* price with its product (a product without metadata has empty metadata), *)
(* and every metadata value becomes a string.                              *)
(***************************************************************************)
EmptyMetadata == [k \in {} |-> ""]

GatewayLineItem(li) ==
    [price |-> [unit_amount |-> li.price_data.unit_amount,
                product |-> [name |-> li.price_data.product_data.name,
                             metadata |-> IF "metadata" \in DOMAIN li.price_data.product_data
                                          THEN li.price_data.product_data.metadata
                                          ELSE EmptyMetadata]],
     quantity |-> li.quantity]

GatewaySession(id, params) ==
    [id |-> id,
     line_items |-> [i \in 1..Len(params.line_items) |-> GatewayLineItem(params.line_items[i])],
     metadata |-> [userId |-> params.metadata.userId,
                   orderId |-> params.metadata.orderId,
                   taxAmount |-> NumberToString(params.metadata.taxAmount),
                   couponId |-> params.metadata.couponId,
                   couponCode |-> params.metadata.couponCode,
                   discountAmount |-> params.metadata.discountAmount],
     shipping_options |-> "shipping_options" \in DOMAIN params]

NoResponse == [kind |-> "none"]

\* the handler of POST /create-checkout-session; gatewayOk is the gateway's answer
CreateCheckoutSession(body, gatewayOk) ==
    IF InvalidItems(body.items)
    THEN /\ response' = [kind |-> "checkout", req |-> body, status |-> 400,
                          reply |-> "Invalid items data", calls |-> <<>>]
         /\ UNCHANGED <<sessions, uuidsDrawn, orders, couponUses, inflight>>
    ELSE LET orderId == RandomUUID(uuidsDrawn + 1)
             params == SessionParams(body, orderId)
             create == [fn |-> "stripe.checkout.sessions.create", params |-> params]
         IN  /\ uuidsDrawn' = uuidsDrawn + 1
             /\ IF gatewayOk
                THEN /\ sessions' = Append(sessions, GatewaySession(Len(sessions) + 1, params))
                     /\ response' = [kind |-> "checkout", req |-> body, status |-> 200,
                                     reply |-> "sessionId", calls |-> <<create>>]
                ELSE /\ sessions' = sessions
                     /\ response' = [kind |-> "checkout", req |-> body, status |-> 500,
                                     reply |-> "message", calls |-> <<create>>]
             /\ UNCHANGED <<orders, couponUses, inflight>>

(***************************************************************************)
(* POST /webhook.  A request carries a signature and an event; the event   *)
(* of a request signed by the gateway is one the gateway built from a      *)
(* session it holds.  A handler that passed the signature and type checks  *)
(* is suspended at three awaits in turn: the session re-fetch, the         *)
(* process_stripe_webhook call and the update_coupon_usage call.           *)
(***************************************************************************)
CheckoutCompleted == "checkout.session.completed"

\* null
Null == "null"

\* item.price.product.metadata.productId is truthy
HasProductId(li) ==
    /\ "productId" \in DOMAIN li.price.product.metadata
    /\ Truthy(li.price.product.metadata.productId)

OrderItem(li) ==
    LET base == [product_id |-> li.price.product.metadata.productId,
                 quantity |-> li.quantity,
                 price_at_time |-> li.price.unit_amount]
    IN  IF "image_url" \in DOMAIN li.price.product.metadata
           /\ Truthy(li.price.product.metadata.image_url)
        THEN base @@ [image_url |-> li.price.product.metadata.image_url]
        ELSE base

\* expandedSession.line_items.data.filter(...).map(...)
OrderItems(expandedSession) ==
    LET genuine == SelectSeq(expandedSession.line_items, HasProductId)
    IN  [i \in 1..Len(genuine) |-> OrderItem(genuine[i])]

\* the arguments of process_stripe_webhook (amount_total and the shipping cost and
\* name, which the gateway computes from the customer's choices, pass through and
\* are left out)
ProcessArgsFreshOrderId(session, expandedSession) ==
    [session_id |-> session.id,
     user_id |-> session.metadata.userId,
     order_id |-> RandomUUID(uuidsDrawn + 1),
     items |-> OrderItems(expandedSession),
     tax_amount |-> OrZero(ParseInt(session.metadata.taxAmount)),
     coupon_id |-> IF Truthy(session.metadata.couponId) THEN session.metadata.couponId ELSE Null,
     coupon_code |-> IF Truthy(session.metadata.couponCode) THEN session.metadata.couponCode ELSE Null,
     discount_amount |-> OrZero(ParseInt(session.metadata.discountAmount))]

ProcessArgs(session, expandedSession) ==
    [session_id |-> session.id,
     user_id |-> session.metadata.userId,
     order_id |-> session.metadata.orderId,
     items |-> OrderItems(expandedSession),
     tax_amount |-> OrZero(ParseInt(session.metadata.taxAmount)),
     coupon_id |-> IF Truthy(session.metadata.couponId) THEN session.metadata.couponId ELSE Null,
     coupon_code |-> IF Truthy(session.metadata.couponCode) THEN session.metadata.couponCode ELSE Null,
     discount_amount |-> OrZero(ParseInt(session.metadata.discountAmount))]

CouponArgs(args) == [p_coupon_id |-> args.coupon_id, p_user_id |-> args.user_id]

HasCouponCode(args) == args.coupon_code # Null

\* if (couponId)
HasCoupon(args) == args.coupon_id # Null

WebhookResponse(req, status, reply, calls) ==
    [kind |-> "webhook", req |-> req, status |-> status, reply |-> reply, calls |-> calls]

SignatureVerifiedWhenPresent(req) == req.sig # "invalid"

\* stripe.webhooks.constructEvent(req.rawBody, sig, secret) returns the event
SignatureVerified(req) == req.sig = "valid"

AnyCheckoutSessionEvent(event) == TRUE

\* event.type === 'checkout.session.completed'
IsCheckoutCompleted(event) == event.type = CheckoutCompleted

\* the handler up to its first await
WebhookReceive(req) ==
    IF ~SignatureVerified(req)
    THEN /\ response' = WebhookResponse(req, 400, "Webhook Error", <<>>)
         /\ UNCHANGED <<sessions, uuidsDrawn, orders, couponUses, inflight>>
    ELSE IF ~IsCheckoutCompleted(req.event)
    THEN /\ response' = WebhookResponse(req, 200, "received", <<>>)
         /\ UNCHANGED <<sessions, uuidsDrawn, orders, couponUses, inflight>>
    ELSE /\ BagCardinality(inflight) < MaxInFlight
         /\ inflight' = inflight (+) SetToBag({[req |-> req, pc |-> "retrieve", calls |-> <<>>]})
         /\ response' = NoResponse
         /\ UNCHANGED <<sessions, uuidsDrawn, orders, couponUses>>

\* stripe.checkout.sessions.retrieve(session.id, {expand}) answers or throws
WebhookRetrieved(h, gatewayOk) ==
    LET session == h.req.event.data.object
        call == [fn |-> "stripe.checkout.sessions.retrieve", args |-> session.id,
                 result |-> IF gatewayOk THEN "ok" ELSE "throws"]
    IN  /\ h.pc = "retrieve"
        /\ IF gatewayOk
           THEN /\ inflight' = (inflight (-) SetToBag({h}))
                                (+) SetToBag({[req |-> h.req, pc |-> "process",
                                               calls |-> Append(h.calls, call),
                                               args |-> ProcessArgs(session, sessions[session.id])]})
                /\ response' = NoResponse
           ELSE /\ inflight' = inflight (-) SetToBag({h})
                /\ response' = WebhookResponse(h.req, 500, "Error processing payment success",
                                               Append(h.calls, call))
        /\ UNCHANGED <<sessions, uuidsDrawn, orders, couponUses>>

\* the database's process_stripe_webhook: an order id that is already persisted is a
\* duplicate key; otherwise the order is persisted unless the call fails
ProcessOutcomes(args) ==
    IF \E o \in orders : o.order_id = args.order_id THEN {"error"} ELSE {"ok", "error"}

NeverThrows(outcome) == FALSE

\* if (error) { ...; throw error; }
ThrowsOnError(outcome) == outcome = "error"

\* const { error } = await supabase.rpc('process_stripe_webhook', ...); if (error) throw error
WebhookProcessed(h, outcome) ==
    LET call == [fn |-> "process_stripe_webhook", args |-> h.args, result |-> outcome,
                 duplicate |-> \E o \in orders : o.order_id = h.args.order_id]
        calls == Append(h.calls, call)
    IN  /\ h.pc = "process"
        /\ outcome \in ProcessOutcomes(h.args)
        /\ orders' = IF outcome = "ok" THEN orders \cup {h.args} ELSE orders
        /\ IF ThrowsOnError(outcome)
           THEN /\ inflight' = inflight (-) SetToBag({h})
                /\ response' = WebhookResponse(h.req, 500, "Error processing payment success", calls)
           ELSE /\ IF HasCoupon(h.args)
                   THEN /\ inflight' = (inflight (-) SetToBag({h}))
                                        (+) SetToBag({[req |-> h.req, pc |-> "coupon",
                                                       calls |-> calls, args |-> h.args]})
                        /\ response' = NoResponse
                   ELSE /\ inflight' = inflight (-) SetToBag({h})
                        /\ response' = WebhookResponse(h.req, 200, "received", calls)
        /\ UNCHANGED <<sessions, uuidsDrawn, couponUses>>

\* await supabase.rpc('update_coupon_usage', ...): the result, an error included, is not read
WebhookCouponUpdated(h, outcome) ==
    LET call == [fn |-> "update_coupon_usage", args |-> CouponArgs(h.args), result |-> outcome]
    IN  /\ h.pc = "coupon"
        /\ inflight' = inflight (-) SetToBag({h})
        /\ couponUses' = IF outcome = "ok"
                         THEN couponUses (+) SetToBag({[args |-> CouponArgs(h.args),
                                                        order_id |-> h.args.order_id]})
                         ELSE couponUses
        /\ response' = WebhookResponse(h.req, 200, "received", Append(h.calls, call))
        /\ UNCHANGED <<sessions, uuidsDrawn, orders>>

(***************************************************************************)
(* Inputs.                                                                 *)
(***************************************************************************)
CartItems ==
    { [id |-> "p1", name |-> "Oud", price |-> Num(1000), quantity |-> Num(2), image_url |-> "img1"],
      [id |-> "p2", name |-> "Musk", price |-> Num(400), quantity |-> Num(1), image_url |-> ""],
      [id |-> "p3", name |-> "Vial", price |-> Num(50), quantity |-> Num(1), image_url |-> ""],
      [id |-> "p4", name |-> "Rose", price |-> Undefined, quantity |-> Num(1), image_url |-> ""],
      [id |-> "p5", name |-> "Iris", price |-> Num(700), quantity |-> Undefined, image_url |-> ""] }

RECURSIVE SeqsUpTo(_, _)
SeqsUpTo(S, n) ==
    IF n = 0 THEN {<<>>}
    ELSE LET shorter == SeqsUpTo(S, n - 1)
         IN  shorter \cup {Append(q, x) : q \in {r \in shorter : Len(r) = n - 1}, x \in S}

Carts == SeqsUpTo(CartItems, MaxItems)

ItemsValues ==
    {[kind |-> "missing", list |-> <<>>], [kind |-> "notArray", list |-> <<>>]}
    \cup {[kind |-> "array", list |-> c] : c \in Carts}

NoCoupon == [present |-> FALSE, id |-> "", code |-> "", discount_type |-> "", discount_value |-> Undefined]

Coupons ==
    {NoCoupon}
    \cup {[present |-> TRUE, id |-> "c1", code |-> "SAVE", discount_type |-> t, discount_value |-> v] :
            t \in {"fixed_amount", "percentage"}, v \in {Num(29), Num(100), Num(150), Num(5000)}}
    \cup {[present |-> TRUE, id |-> "c2", code |-> "GIFT", discount_type |-> t, discount_value |-> Undefined] :
            t \in {"free_shipping", "no_tax", "full_discount"}}
    \cup {[present |-> TRUE, id |-> "", code |-> "ANON", discount_type |-> "percentage", discount_value |-> Num(10)]}

CheckoutBodies ==
    {[items |-> i, userId |-> "u1", coupon |-> c] : i \in ItemsValues, c \in Coupons}

Init ==
    /\ sessions = <<>>
    /\ uuidsDrawn = 0
    /\ orders = {}
    /\ couponUses = EmptyBag
    /\ inflight = EmptyBag
    /\ response = NoResponse

(***************************************************************************)
(* One checkout request against the service as started: the handler is a   *)
(* function of the request body and of the gateway's answer.               *)
(***************************************************************************)
CheckoutRequest ==
    /\ response = NoResponse
    /\ \E body \in CheckoutBodies, gatewayOk \in BOOLEAN : CreateCheckoutSession(body, gatewayOk)

NextCheckout == CheckoutRequest

SpecCheckout == Init /\ [][NextCheckout]_vars

(***************************************************************************)
(* Webhook requests.                                                       *)
(***************************************************************************)
EventTypes == {CheckoutCompleted, "checkout.session.expired"}

\* what the gateway puts in an event about a session it holds
SessionObject(s) == [id |-> s.id, metadata |-> s.metadata]

GatewayEvents ==
    {[type |-> t, data |-> [object |-> SessionObject(sessions[i])]] :
        t \in EventTypes, i \in 1..Len(sessions)}

\* an event nobody signed may say anything
ForgedEvents ==
    {[type |-> t,
      data |-> [object |-> [id |-> 1,
                            metadata |-> [userId |-> "u9", orderId |-> RandomUUID(0),
                                          taxAmount |-> <<"0">>, couponId |-> "c1",
                                          couponCode |-> "SAVE", discountAmount |-> <<"0">>]]]] :
        t \in EventTypes}

\* requests signed by the gateway, and requests with a bad or no signature
SignedRequests == {[sig |-> "valid", event |-> e] : e \in GatewayEvents}

UnsignedRequests ==
    {[sig |-> g, event |-> e] : g \in {"invalid", "missing"}, e \in GatewayEvents \cup ForgedEvents}

WebhookRequests == SignedRequests \cup UnsignedRequests

Retrieved == \E h \in BagToSet(inflight), gatewayOk \in BOOLEAN : WebhookRetrieved(h, gatewayOk)

Processed == \E h \in BagToSet(inflight), outcome \in {"ok", "error"} : WebhookProcessed(h, outcome)

CouponUpdated ==
    \E h \in BagToSet(inflight), outcome \in {"ok", "error"} : WebhookCouponUpdated(h, outcome)

(***************************************************************************)
(* One webhook request, of any kind, against a gateway that holds at most  *)
(* one session, created from any request body; the handler runs to its     *)
(* response.                                                               *)
(***************************************************************************)
FirstCheckout ==
    /\ sessions = <<>> /\ uuidsDrawn = 0 /\ response = NoResponse /\ inflight = EmptyBag
    /\ \E body \in {b \in CheckoutBodies : ~InvalidItems(b.items)} : CreateCheckoutSession(body, TRUE)

OnlyDelivery ==
    /\ inflight = EmptyBag /\ response.kind # "webhook"
    /\ \E req \in WebhookRequests : WebhookReceive(req)

NextDelivery == FirstCheckout \/ OnlyDelivery \/ Retrieved \/ Processed \/ CouponUpdated

SpecDelivery == Init /\ [][NextDelivery]_vars

(***************************************************************************)
(* The reconciliation flow: checkout sessions are created and the gateway  *)
(* delivers the checkout-completed event of any of them, any number of     *)
(* times, deliveries overlapping.                                          *)
(***************************************************************************)
FlowCarts == {<<CHOOSE it \in CartItems : it.id = "p1">>}

FlowCoupons == {c \in Coupons : \/ ~c.present
                                \/ c.discount_type = "free_shipping"
                                \/ c.discount_type = "percentage" /\ c.discount_value = Num(29)}

FlowBodies ==
    {[items |-> [kind |-> "array", list |-> c], userId |-> "u1", coupon |-> k] :
        c \in FlowCarts, k \in FlowCoupons}

Checkout ==
    \E body \in FlowBodies, gatewayOk \in BOOLEAN :
        /\ uuidsDrawn < MaxCheckouts
        /\ CreateCheckoutSession(body, gatewayOk)

Receive ==
    \E req \in {r \in SignedRequests : r.event.type = CheckoutCompleted} : WebhookReceive(req)

Next == Checkout \/ Receive \/ Retrieved \/ Processed \/ CouponUpdated

Spec == Init /\ [][Next]_vars

(***************************************************************************)
(* Properties.                                                             *)
(***************************************************************************)
Range(seq) == {seq[i] : i \in 1..Len(seq)}

FinishedWebhook == response.kind = "webhook"

FinishedCheckout == response.kind = "checkout"

\* the calls of the last response that went to the named function
CallsTo(fn) == {c \in Range(response.calls) : c.fn = fn}

\* the argument records of every process_stripe_webhook call issued so far that the
\* state still shows: persisted, awaited by a suspended handler, or just answered
IssuedProcessArgs ==
    orders
    \cup {h.args : h \in {x \in BagToSet(inflight) : x.pc \in {"process", "coupon"}}}
    \cup (IF FinishedWebhook THEN {c.args : c \in CallsTo("process_stripe_webhook")} ELSE {})

\* C1: a webhook request whose signature check fails (bad or missing signature) is
\* answered 400 and makes no call (no session re-fetch, no process_stripe_webhook,
\* no update_coupon_usage), whatever its event type and payload; no handler of such
\* a request is ever waiting on a call.
C1_BadSignatureRejected ==
    /\ FinishedWebhook /\ response.req.sig # "valid"
         => response.status = 400 /\ response.calls = <<>>
    /\ \A h \in BagToSet(inflight) : h.req.sig = "valid"

C1_Witness ==
    /\ FinishedWebhook
    /\ response.req.sig = "missing"
    /\ response.req.event.type = CheckoutCompleted
    /\ response.req.event \in GatewayEvents
    /\ response.status = 400

\* C2: a checkout request whose items are missing, not an array or an empty array is
\* answered 400, no call is made to the gateway, no session exists and the database
\* is untouched.
C2_InvalidItemsRejected ==
    FinishedCheckout
    /\ (response.req.items.kind # "array" \/ Len(response.req.items.list) = 0)
        => /\ response.status = 400
           /\ response.calls = <<>>
           /\ sessions = <<>>
           /\ orders = {} /\ couponUses = EmptyBag

C2_Witness ==
    /\ FinishedCheckout
    /\ response.req.items.kind = "array" /\ response.req.items.list = <<>>
    /\ response.req.coupon.present
    /\ response.status = 400

\* C3: a delivery of the checkout-completed event for a session whose order an
\* earlier or overlapping delivery already persisted (process_stripe_webhook reports
\* the duplicate key) is still acknowledged with 200 {received: true}.
C3_DuplicateAcknowledged ==
    FinishedWebhook
    /\ (\E c \in CallsTo("process_stripe_webhook") : c.duplicate)
        => response.status = 200 /\ response.reply = "received"

\* C4: a signature-verified checkout-completed delivery in which a processing step
\* failed (the session re-fetch, process_stripe_webhook or update_coupon_usage) is
\* answered with status 500, never with the 200 acknowledgement.
C4_FailureAnswers500 ==
    FinishedWebhook
    /\ (\E c \in Range(response.calls) : c.result # "ok")
        => response.status = 500

\* C5: a signature-verified event of any type other than checkout.session.completed
\* is answered 200 {received: true} without any gateway or database call; no handler
\* of such an event is ever waiting on a call.
C5_OtherEventsAcknowledged ==
    /\ FinishedWebhook
       /\ response.req.sig = "valid"
       /\ response.req.event.type # CheckoutCompleted
         => /\ response.status = 200 /\ response.reply = "received"
            /\ response.calls = <<>>
    /\ \A h \in BagToSet(inflight) : h.req.event.type = CheckoutCompleted

C5_Witness ==
    /\ FinishedWebhook
    /\ response.req.sig = "valid"
    /\ response.req.event.type = "checkout.session.expired"
    /\ response.req.event.data.object.metadata.couponId # ""
    /\ response.status = 200

\* C6: the order_id of every process_stripe_webhook call made for a session is the
\* order identifier that was drawn once when that session was created and stamped in
\* its metadata; no two sessions carry the same identifier, so it is neither
\* regenerated nor taken from another session, however deliveries are delayed,
\* reordered or repeated.
C6_OrderIdRoundTrip ==
    /\ \A a \in IssuedProcessArgs :
         /\ a.session_id \in 1..Len(sessions)
         /\ a.order_id = sessions[a.session_id].metadata.orderId
    /\ \A i \in 1..Len(sessions) :
         /\ \E n \in 1..uuidsDrawn : sessions[i].metadata.orderId = RandomUUID(n)
         /\ \A j \in 1..Len(sessions) :
              sessions[i].metadata.orderId = sessions[j].metadata.orderId => i = j
    /\ FinishedCheckout /\ response.status = 200
         => sessions[Len(sessions)].metadata.orderId = response.calls[1].params.metadata.orderId

\* the second session's order is persisted before the first one's, and a repeated
\* delivery for it overlaps a late delivery for the first session
C6_Witness ==
    /\ Len(sessions) = 2
    /\ \E o \in orders : o.session_id = 2 /\ o.order_id = RandomUUID(2)
    /\ \A o \in orders : o.session_id # 1
    /\ \E h \in BagToSet(inflight) : h.pc = "process" /\ h.args.session_id = 2
    /\ \E h \in BagToSet(inflight) : h.pc = "process" /\ h.args.session_id = 1

(***************************************************************************)
(* The session a checkout request asked the gateway to create.             *)
(***************************************************************************)
CreatedParams == response.calls[1].params

AsksGateway == FinishedCheckout /\ response.calls # <<>>

TaxLines(params) ==
    {li \in Range(params.line_items) : li.price_data.product_data.name = "Sales Tax (8.875%)"}

DiscountLines(params) ==
    {li \in Range(params.line_items) :
        li.price_data.product_data.name = "Discount: " \o params.metadata.couponCode}

\* every price and quantity of the cart is a number
WellFormedCart(list) == \A i \in 1..Len(list) : list[i].price.t = "num" /\ list[i].quantity.t = "num"

\* sum of price x quantity over a well-formed cart
RECURSIVE ReferenceSubtotal(_)
ReferenceSubtotal(list) ==
    IF list = <<>> THEN 0
    ELSE Head(list).price.v * Head(list).quantity.v + ReferenceSubtotal(Tail(list))

\* C7: in the session built for a non-empty cart, a free_shipping or full_discount
\* coupon leaves out the shipping options and the shipping address collection, a
\* no_tax or full_discount coupon leaves out the tax line item, and without a coupon
\* the shipping options are attached.
C7_CouponSuppression ==
    AsksGateway =>
        LET coupon == response.req.coupon
            params == CreatedParams
        IN  /\ coupon.present /\ coupon.discount_type \in {"free_shipping", "full_discount"}
                => /\ "shipping_options" \notin DOMAIN params
                   /\ "shipping_address_collection" \notin DOMAIN params
            /\ coupon.present /\ coupon.discount_type \in {"no_tax", "full_discount"}
                => TaxLines(params) = {}
            /\ ~coupon.present
                => /\ "shipping_options" \in DOMAIN params
                   /\ params.shipping_options = ShippingOptions

\* a no_tax coupon on a cart with a positive subtotal: shipping is attached, no tax line
C7_Witness ==
    /\ AsksGateway /\ response.status = 200
    /\ response.req.coupon.present /\ response.req.coupon.discount_type = "no_tax"
    /\ WellFormedCart(response.req.items.list)
    /\ ReferenceSubtotal(response.req.items.list) > 0
    /\ TaxLines(CreatedParams) = {}
    /\ "shipping_options" \in DOMAIN CreatedParams

\* C8: for every non-empty cart and every coupon the discount does not exceed the
\* subtotal, so the subtotal plus the (negative) discount line is never negative.
C8_DiscountWithinSubtotal ==
    AsksGateway /\ WellFormedCart(response.req.items.list) =>
        \A li \in DiscountLines(CreatedParams) :
            ReferenceSubtotal(response.req.items.list) + li.price_data.unit_amount.v >= 0

\* subtotal x 8875 / 100000 in integers, halves rounded up
ReferenceTax(subtotal) == (subtotal * TaxRateNum + TaxRateDen \div 2) \div TaxRateDen

\* C9: for a non-empty cart whose prices and quantities are numbers, the tax amount
\* stamped in the session metadata is the subtotal times 0.08875 rounded half up, as
\* computed in integers on the subtotal in cents, unless the coupon is no_tax or
\* full_discount, and then it is 0; the gateway keeps it as that number's text.
C9_TaxAmount ==
    AsksGateway /\ WellFormedCart(response.req.items.list) =>
        LET coupon == response.req.coupon
            expected == IF coupon.present /\ coupon.discount_type \in {"no_tax", "full_discount"}
                        THEN 0
                        ELSE ReferenceTax(ReferenceSubtotal(response.req.items.list))
        IN  /\ CreatedParams.metadata.taxAmount = Num(expected)
            /\ response.status = 200
                 => ParseInt(sessions[Len(sessions)].metadata.taxAmount) = Num(expected)

\* subtotal 400: 400 x 0.08875 = 35.5 exactly, which rounds up to 36
C9_Witness ==
    /\ AsksGateway /\ response.status = 200
    /\ ~response.req.coupon.present
    /\ WellFormedCart(response.req.items.list)
    /\ ReferenceSubtotal(response.req.items.list) = 400
    /\ CreatedParams.metadata.taxAmount = Num(36)
    /\ sessions[1].metadata.taxAmount = <<"3", "6">>

\* the synthetic lines of a session: the tax line and the discount line
SyntheticNames(session) == {"Sales Tax (8.875%)", "Discount: " \o session.metadata.couponCode}

\* C10: the order items passed to process_stripe_webhook never include the tax or
\* the discount line: every order item is, in order, a line item of the re-fetched
\* session that is not synthetic and carries a product identifier in its product
\* metadata, with that line's product id, quantity and unit price.
C10_OnlyGenuineItems ==
    \A a \in IssuedProcessArgs :
        LET session == sessions[a.session_id]
            lines == session.line_items
        IN  /\ \A i \in 1..Len(a.items) :
                 \E j \in i..Len(lines) :
                     /\ lines[j].price.product.name \notin SyntheticNames(session)
                     /\ "productId" \in DOMAIN lines[j].price.product.metadata
                     /\ a.items[i].product_id = lines[j].price.product.metadata.productId
                     /\ a.items[i].quantity = lines[j].quantity
                     /\ a.items[i].price_at_time = lines[j].price.unit_amount
            /\ Len(a.items) + Cardinality({j \in 1..Len(lines) :
                   lines[j].price.product.name \in SyntheticNames(session)}) <= Len(lines)

\* an order persisted from a session of two cart lines, a tax line and a discount line
C10_Witness ==
    \E a \in orders :
        /\ Len(sessions[a.session_id].line_items) = 4
        /\ Len(a.items) = 2
        /\ a.items[1].product_id # a.items[2].product_id
        /\ a.tax_amount.v > 0 /\ a.discount_amount.v > 0

\* C11: a checkout request whose non-empty items array holds an item without a price
\* or without a quantity is answered with a validation failure (400) and no
\* session-creation request is sent to the gateway.
C11_MalformedItemRejected ==
    FinishedCheckout
    /\ response.req.items.kind = "array" /\ response.req.items.list # <<>>
    /\ ~WellFormedCart(response.req.items.list)
        => response.status = 400 /\ response.calls = <<>>

\* the metadata of the session object a webhook request carries
EventMetadata(req) == req.event.data.object.metadata

\* C12: in the handling of a checkout-completed event, update_coupon_usage is called
\* exactly when the session metadata carries a non-empty coupon id and
\* process_stripe_webhook has returned without error in that handling; the call is
\* the one that directly follows that return, it is made once, and it is keyed by the
\* metadata's coupon id and user id. A session whose metadata holds the empty-string
\* coupon id never has a coupon-usage call, issued or applied.
C12_CouponUsageCall ==
    /\ FinishedWebhook =>
          LET n == Len(response.calls)
              meta == EventMetadata(response.req)
          IN  /\ CallsTo("update_coupon_usage") # {} =>
                    /\ meta.couponId # ""
                    /\ n >= 2
                    /\ \A i \in 1..n : response.calls[i].fn = "update_coupon_usage" <=> i = n
                    /\ response.calls[n].args =
                           [p_coupon_id |-> meta.couponId, p_user_id |-> meta.userId]
                    /\ response.calls[n - 1].fn = "process_stripe_webhook"
                    /\ response.calls[n - 1].result = "ok"
              /\ (\E c \in CallsTo("process_stripe_webhook") : c.result = "ok")
                 /\ meta.couponId # ""
                    => CallsTo("update_coupon_usage") # {}
    /\ \A h \in BagToSet(inflight) :
          LET n == Len(h.calls)
              meta == EventMetadata(h.req)
          IN  h.pc = "coupon" =>
                 /\ meta.couponId # ""
                 /\ CouponArgs(h.args) = [p_coupon_id |-> meta.couponId, p_user_id |-> meta.userId]
                 /\ n >= 1
                 /\ h.calls[n].fn = "process_stripe_webhook" /\ h.calls[n].result = "ok"
                 /\ \A i \in 1..n : h.calls[i].fn # "update_coupon_usage"
    /\ \A u \in BagToSet(couponUses) :
          \E id \in DOMAIN sessions :
             /\ sessions[id].metadata.couponId # ""
             /\ u.args = [p_coupon_id |-> sessions[id].metadata.couponId,
                          p_user_id |-> sessions[id].metadata.userId]

\* a handling of a coupon session has answered after process_stripe_webhook returned
\* without error and update_coupon_usage was called with the coupon id and user id
C12_Witness ==
    /\ FinishedWebhook
    /\ \E c \in CallsTo("update_coupon_usage") :
          c.args = [p_coupon_id |-> "c2", p_user_id |-> "u1"]
    /\ \E c \in CallsTo("process_stripe_webhook") : c.result = "ok"

\* a handling of a session created with a coupon object that has a code but an empty
\* id has answered after process_stripe_webhook returned without error
C12_WitnessEmptyId ==
    /\ FinishedWebhook
    /\ \E c \in CallsTo("process_stripe_webhook") :
          c.result = "ok" /\ c.args.coupon_code = "ANON" /\ c.args.coupon_id = Null

\* the tax charged in a session: the unit amount of its tax line, 0 without one
ChargedTax(session) ==
    LET taxLines == {li \in Range(session.line_items) :
                        li.price.product.name = "Sales Tax (8.875%)"}
    IN  IF taxLines = {} THEN Num(0) ELSE (CHOOSE li \in taxLines : TRUE).price.unit_amount

\* C13: for every session created by the checkout endpoint and reconciled by the
\* webhook, the tax_amount passed to process_stripe_webhook equals the tax charged in
\* the session's line items (the unit amount of the tax line, or 0 when the session
\* has no tax line), whatever the coupon type.
C13_RecordedTaxIsChargedTax ==
    \A a \in IssuedProcessArgs : a.tax_amount = ChargedTax(sessions[a.session_id])

\* the order ids of the sessions created so far
OrderIds == {sessions[i].metadata.orderId : i \in DOMAIN sessions}

PersistedOrderIds == {o.order_id : o \in orders}

\* the update_coupon_usage calls for an order that a suspended handler is awaiting
InFlightCouponCalls(orderId) ==
    LET awaiting == {h \in BagToSet(inflight) : h.pc = "coupon" /\ h.args.order_id = orderId}
    IN  BagCardinality([h \in awaiting |-> inflight[h]])

\* the update_coupon_usage calls for an order that the database has applied
AppliedCouponUses(orderId) ==
    LET applied == {u \in BagToSet(couponUses) : u.order_id = orderId}
    IN  BagCardinality([u \in applied |-> couponUses[u]])

\* C14: with process_stripe_webhook returning an error for an order id that is already
\* persisted, repeated and overlapping deliveries of the checkout-completed event
\* invoke update_coupon_usage at most once per order: a step invokes it for an order
\* only when that step persists the order for the first time, it invokes it once, a
\* persisted order stays persisted, and at no time are two calls for one order awaited
\* or applied, so a purchase never counts twice in the coupon's usage.
C14_CouponUsageOncePerOrder ==
    /\ [](\A id \in OrderIds : InFlightCouponCalls(id) + AppliedCouponUses(id) <= 1)
    /\ [][/\ PersistedOrderIds \subseteq PersistedOrderIds'
          /\ \A id \in OrderIds :
                InFlightCouponCalls(id)' > InFlightCouponCalls(id)
                   => /\ InFlightCouponCalls(id)' = InFlightCouponCalls(id) + 1
                      /\ id \notin PersistedOrderIds
                      /\ id \in PersistedOrderIds']_vars

\* a second delivery for a coupon session was refused as a duplicate after the first
\* delivery's update_coupon_usage call was applied
C14_Witness ==
    /\ FinishedWebhook /\ response.status = 500
    /\ \E c \in CallsTo("process_stripe_webhook") :
          /\ c.duplicate /\ c.result = "error"
          /\ c.args.coupon_id # Null
          /\ AppliedCouponUses(c.args.order_id) = 1
====
